---- MODULE Spec2Model ----
(***************************************************************************)
(* find_duplicates.py: main() walks a list of directory entries, groups    *)
(* the regular files by size, then, per size shared by two or more files,  *)
(* groups them by adler32 checksum and prints every checksum shared by two *)
(* or more files.  A path is modelled by its index in the glob result.     *)
(***************************************************************************)
EXTENDS Integers, Sequences, FiniteSets, TLC

\* ------------------------------------------------------ bounds, constants
\* Longest glob result of the exhaustively enumerated inputs.
MaxFiles == 4

\* `len(dup_sizes) > 200` (main, the large-output warning).
WarnThreshold == 200

\* adler32's modulus and the shift of its high half (zlib).
AdlerMod == 65521
AdlerShift == 65536

\* ------------------------------------------------------------------ inputs
\* File contents the enumerated inputs draw from: the empty file, two
\* one-byte files, and three three-byte files, two of which (00 02 00 and
\* 01 00 01) have the same adler32, 0x00070003.
Contents == { <<>>, <<0>>, <<1>>, <<0, 2, 0>>, <<1, 0, 1>>, <<0, 0, 1>> }

\* What glob can return: a regular file with some content, a directory, or
\* an entry whose size cannot be read (os.path.isdir is False and
\* os.path.getsize raises, e.g. a dangling symlink).
Entries ==
    { [kind |-> "file", data |-> c] : c \in Contents }
        \cup { [kind |-> "dir", data |-> <<>>], [kind |-> "broken", data |-> <<>>] }

RECURSIVE SeqsUpTo(_, _)
SeqsUpTo(S, m) ==
    IF m = 0 THEN { <<>> }
    ELSE LET shorter == SeqsUpTo(S, m - 1)
         IN  shorter \cup { Append(s, e) : s \in { t \in shorter : Len(t) = m - 1 }, e \in S }

\* One large directory: two files of every size 0..WarnThreshold (all zero
\* bytes), i.e. WarnThreshold + 1 sizes that are each shared by two files.
ManyFiles ==
    [ i \in 1..(2 * (WarnThreshold + 1)) |->
        [kind |-> "file", data |-> [ j \in 1..((i - 1) \div 2) |-> 0 ]] ]

\* The directories a run is given: every listing of up to MaxFiles entries,
\* held as the listing itself, and the large directory, held by name.
Directories ==
    { [name |-> "listed", entries |-> s] : s \in SeqsUpTo(Entries, MaxFiles) }
        \cup { [name |-> "many", entries |-> << >>] }

\* glob(f"{target_directory}/**")
glob(d) == IF d.name = "many" THEN ManyFiles ELSE d.entries

\* Replies input("Continue? ") can give; "EOF" stands for a closed stdin
\* (input raises EOFError).
Answers == { "n", "y", "", "EOF" }

\* ------------------------------------------------------------------ helpers
\* zlib.adler32 over a byte sequence.  AdlerPart gives, for the bytes
\* lo..hi, <<their sum, the sum of their running sums>> mod AdlerMod, putting
\* two halves together the way zlib's adler32_combine does.  The files of
\* Directories are short enough for the high half to stay below 2^15.
RECURSIVE AdlerPart(_, _, _)
AdlerPart(d, lo, hi) ==
    IF lo > hi THEN << 0, 0 >>
    ELSE IF lo = hi THEN << d[lo] % AdlerMod, d[lo] % AdlerMod >>
    ELSE LET mid == (lo + hi) \div 2
             l == AdlerPart(d, lo, mid)
             r == AdlerPart(d, mid + 1, hi)
         IN  << (l[1] + r[1]) % AdlerMod,
                (l[2] + (hi - mid) * l[1] + r[2]) % AdlerMod >>

adler32(d) ==
    LET p == AdlerPart(d, 1, Len(d))
    IN  (((Len(d) + p[2]) % AdlerMod) * AdlerShift) + ((1 + p[1]) % AdlerMod)

VARIABLES
    target_directory, \* the directory named on the command line
    warn,           \* False under -y / --no-warn
    pc,             \* position in main
    n,              \* entries size-checked so far
    seen_sizes,     \* size -> list of paths
    dup_sizes,      \* sizes with more than one file
    todo_sizes,     \* what the iteration over dup_sizes has left
    dup_size,       \* the size being checked
    k,              \* position in seen_sizes[dup_size]
    checksums,      \* checksum -> list of paths, of the current size
    dup_checksums,  \* checksums with more than one file, of the current size
    todo_checksums, \* what the iteration over dup_checksums has left
    total_dup,
    groups,         \* the printed groups, in print order
    summary,        \* the printed summary line, if any
    answer,         \* the reply to the prompt, "none" before it
    read,           \* paths whose content fil_checksum has read
    failed,         \* the path whose open() or getsize() raised, 0 if none
    raised,         \* the call that raised: "none", "getsize", "open" or "input"
    exit_status     \* the process's exit status, -1 while it runs

vars == << target_directory, warn, pc, n, seen_sizes, dup_sizes, todo_sizes, dup_size, k,
           checksums, dup_checksums, todo_checksums, total_dup, groups,
           summary, answer, read, failed, raised, exit_status >>

\* The glob result: built once, never changed.
files == glob(target_directory)

EmptyDict == [ x \in {} |-> <<>> ]

\* d[key] = [f] when key is new, d[key].append(f) otherwise.
AddTo(d, key, f) ==
    [ x \in DOMAIN d \cup {key} |->
        IF x = key
        THEN (IF key \in DOMAIN d THEN Append(d[key], f) ELSE << f >>)
        ELSE d[x] ]

\* os.path.getsize
getsize(f) == Len(files[f].data)

\* fil_checksum, when the file can be opened
fil_checksum(f) == adler32(files[f].data)

Min(S) == CHOOSE x \in S : \A y \in S : x <= y

Init ==
    /\ target_directory \in Directories
    /\ warn \in BOOLEAN
    /\ pc = "size"
    /\ n = 0
    /\ seen_sizes = EmptyDict
    /\ dup_sizes = {}
    /\ todo_sizes = {}
    /\ dup_size = -1
    /\ k = 0
    /\ checksums = EmptyDict
    /\ dup_checksums = {}
    /\ todo_checksums = {}
    /\ total_dup = 0
    /\ groups = << >>
    /\ summary = << >>
    /\ answer = "none"
    /\ read = {}
    /\ failed = 0
    /\ raised = "none"
    /\ exit_status = -1

\* ------------------------------------------------------------ size stage
\* `if os.path.isdir(f): continue`
SkipDir ==
    /\ pc = "size" /\ n < Len(files)
    /\ files[n + 1].kind = "dir"
    /\ n' = n + 1
    /\ UNCHANGED << target_directory, warn, pc, seen_sizes, dup_sizes, todo_sizes, dup_size, k,
                    checksums, dup_checksums, todo_checksums, total_dup, groups,
                    summary, answer, read, failed, raised, exit_status >>

\* os.path.getsize raises OSError: the exception leaves main uncaught.
StatFail ==
    /\ pc = "size" /\ n < Len(files)
    /\ files[n + 1].kind = "broken"
    /\ pc' = "crashed"
    /\ failed' = n + 1
    /\ raised' = "getsize"
    /\ exit_status' = 1
    /\ UNCHANGED << target_directory, warn, n, seen_sizes, dup_sizes, todo_sizes, dup_size, k,
                    checksums, dup_checksums, todo_checksums, total_dup, groups,
                    summary, answer, read >>

\* Variant: a size is remembered only from its third file on.
DupSizesAfter_third(fsize) ==
    IF fsize \in DOMAIN seen_sizes /\ Len(seen_sizes[fsize]) >= 2
    THEN dup_sizes \cup {fsize} ELSE dup_sizes

\* Variant: size 0 is taken for "no size" and never remembered.
DupSizesAfter_truthy(fsize) ==
    IF fsize \in DOMAIN seen_sizes /\ fsize # 0
    THEN dup_sizes \cup {fsize} ELSE dup_sizes

\* The sizes to remember as duplicated after f of size fsize was filed.
DupSizesAfter(fsize) ==
    IF fsize \in DOMAIN seen_sizes THEN dup_sizes \cup {fsize} ELSE dup_sizes

Classify ==
    /\ pc = "size" /\ n < Len(files)
    /\ files[n + 1].kind = "file"
    /\ LET f == n + 1
           fsize == getsize(f)
       IN  /\ seen_sizes' = AddTo(seen_sizes, fsize, f)
           /\ dup_sizes' = DupSizesAfter(fsize)
    /\ n' = n + 1
    /\ UNCHANGED << target_directory, warn, pc, todo_sizes, dup_size, k,
                    checksums, dup_checksums, todo_checksums, total_dup, groups,
                    summary, answer, read, failed, raised, exit_status >>

\* ------------------------------------------------------------ checkpoint
ShouldWarn == Cardinality(dup_sizes) > WarnThreshold /\ warn

\* Variant: the reply is compared with 'N'.
Declined_upper(ans) == ans = "N"

Declined(ans) == ans = "n"

\* The size loop is over and no prompt is due: on to the checksum stage.
NoWarn ==
    /\ pc = "size" /\ n = Len(files)
    /\ ~ShouldWarn
    /\ pc' = "sizes"
    /\ todo_sizes' = dup_sizes
    /\ total_dup' = 0
    /\ UNCHANGED << target_directory, warn, n, seen_sizes, dup_sizes, dup_size, k,
                    checksums, dup_checksums, todo_checksums, groups,
                    summary, answer, read, failed, raised, exit_status >>

\* `if input("Continue? ") == 'n': exit()`
Prompt ==
    /\ pc = "size" /\ n = Len(files)
    /\ ShouldWarn
    /\ \E ans \in Answers :
        /\ answer' = ans
        /\ IF ans = "EOF"
           THEN /\ pc' = "crashed" /\ exit_status' = 1
                /\ raised' = "input" /\ todo_sizes' = todo_sizes
           ELSE IF Declined(ans)
           THEN /\ pc' = "cancelled" /\ exit_status' = 0
                /\ raised' = raised /\ todo_sizes' = todo_sizes
           ELSE /\ pc' = "sizes" /\ exit_status' = exit_status
                /\ raised' = raised /\ todo_sizes' = dup_sizes
    /\ total_dup' = 0
    /\ UNCHANGED << target_directory, warn, n, seen_sizes, dup_sizes, dup_size, k,
                    checksums, dup_checksums, todo_checksums, groups,
                    summary, read, failed >>

\* -------------------------------------------------------- checksum stage
\* Variant: checksums and dup_checksums are created once, before the loop.
NextSize_shared ==
    /\ pc = "sizes" /\ todo_sizes # {}
    /\ dup_size' = Min(todo_sizes)
    /\ todo_sizes' = todo_sizes \ { Min(todo_sizes) }
    /\ k' = 1
    /\ pc' = "checksum"
    /\ UNCHANGED << target_directory, warn, n, seen_sizes, dup_sizes, checksums, dup_checksums,
                    todo_checksums, total_dup, groups, summary, answer, read,
                    failed, raised, exit_status >>

\* `for dup_size in dup_sizes:` with fresh checksums and dup_checksums.
\* CPython iterates a set of small non-negative ints in increasing order.
NextSize ==
    /\ pc = "sizes" /\ todo_sizes # {}
    /\ dup_size' = Min(todo_sizes)
    /\ todo_sizes' = todo_sizes \ { Min(todo_sizes) }
    /\ checksums' = EmptyDict
    /\ dup_checksums' = {}
    /\ k' = 1
    /\ pc' = "checksum"
    /\ UNCHANGED << target_directory, warn, n, seen_sizes, dup_sizes, todo_checksums,
                    total_dup, groups, summary, answer, read, failed, raised, exit_status >>

\* Variant: every checksum is remembered, also one seen for the first time.
DupChecksumsAfter_every(c) == dup_checksums \cup {c}

\* The checksums to remember as duplicated after a file with checksum c.
DupChecksumsAfter(c) ==
    IF c \in DOMAIN checksums THEN dup_checksums \cup {c} ELSE dup_checksums

Checksum ==
    /\ pc = "checksum" /\ k <= Len(seen_sizes[dup_size])
    /\ LET f == seen_sizes[dup_size][k]
           checksum == fil_checksum(f)
       IN  /\ checksums' = AddTo(checksums, checksum, f)
           /\ dup_checksums' = DupChecksumsAfter(checksum)
           /\ read' = read \cup {f}
    /\ k' = k + 1
    /\ UNCHANGED << target_directory, warn, pc, n, seen_sizes, dup_sizes, todo_sizes, dup_size,
                    todo_checksums, total_dup, groups, summary, answer, failed, raised,
                    exit_status >>

\* open(fname, "rb") raises (the file is gone or unreadable by now): the
\* exception leaves fil_checksum and main uncaught.
ReadFail ==
    /\ pc = "checksum" /\ k <= Len(seen_sizes[dup_size])
    /\ failed' = seen_sizes[dup_size][k]
    /\ raised' = "open"
    /\ pc' = "crashed"
    /\ exit_status' = 1
    /\ UNCHANGED << target_directory, warn, n, seen_sizes, dup_sizes, todo_sizes, dup_size, k,
                    checksums, dup_checksums, todo_checksums, total_dup, groups,
                    summary, answer, read >>

\* Variant: the inner loop stops one file short.
EndChecksum_short ==
    /\ pc = "checksum" /\ k >= Len(seen_sizes[dup_size])
    /\ pc' = "report"
    /\ todo_checksums' = dup_checksums
    /\ UNCHANGED << target_directory, warn, n, seen_sizes, dup_sizes, todo_sizes, dup_size, k,
                    checksums, dup_checksums, total_dup, groups, summary, answer,
                    read, failed, raised, exit_status >>

\* The inner loop is over: `for dup_checksum in dup_checksums:` starts.
EndChecksum ==
    /\ pc = "checksum" /\ k > Len(seen_sizes[dup_size])
    /\ pc' = "report"
    /\ todo_checksums' = dup_checksums
    /\ UNCHANGED << target_directory, warn, n, seen_sizes, dup_sizes, todo_sizes, dup_size, k,
                    checksums, dup_checksums, total_dup, groups, summary, answer,
                    read, failed, raised, exit_status >>

\* Variant: the whole size class is counted for every group.
TotalAfter_class(duplicates) == total_dup + Len(seen_sizes[dup_size])

\* total_dup after the group `duplicates` was counted.
TotalAfter(duplicates) == total_dup + Len(duplicates)

\* One group is printed; a set of checksums is iterated in no known order.
Report ==
    /\ pc = "report"
    /\ \E dup_checksum \in todo_checksums :
        LET duplicates == checksums[dup_checksum]
        IN  /\ total_dup' = TotalAfter(duplicates)
            /\ groups' = Append(groups, [checksum |-> dup_checksum, members |-> duplicates])
            /\ todo_checksums' = todo_checksums \ {dup_checksum}
    /\ UNCHANGED << target_directory, warn, pc, n, seen_sizes, dup_sizes, todo_sizes, dup_size, k,
                    checksums, dup_checksums, summary, answer, read, failed, raised,
                    exit_status >>

EndReport ==
    /\ pc = "report" /\ todo_checksums = {}
    /\ pc' = "sizes"
    /\ UNCHANGED << target_directory, warn, n, seen_sizes, dup_sizes, todo_sizes, dup_size, k,
                    checksums, dup_checksums, todo_checksums, total_dup, groups,
                    summary, answer, read, failed, raised, exit_status >>

\* The number printed after "out of" in the summary line.
TotalFiles == Len(files)

\* `print(f"\nFound {total_dup} ... out of {len(files)} files ...")`, then main
\* returns None and SystemExit(None) ends the process with status 0.
Summary ==
    /\ pc = "sizes" /\ todo_sizes = {}
    /\ summary' = << [total_dup |-> total_dup, total_files |-> TotalFiles] >>
    /\ pc' = "done"
    /\ exit_status' = 0
    /\ UNCHANGED << target_directory, warn, n, seen_sizes, dup_sizes, todo_sizes, dup_size, k,
                    checksums, dup_checksums, todo_checksums, total_dup, groups,
                    answer, read, failed, raised >>

Next ==
    \/ SkipDir \/ StatFail \/ Classify
    \/ NoWarn \/ Prompt
    \/ NextSize \/ Checksum \/ ReadFail \/ EndChecksum
    \/ Report \/ EndReport
    \/ Summary

Spec == Init /\ [][Next]_vars

\* ------------------------------------------------------------ properties
Range(s) == { s[i] : i \in DOMAIN s }

\* The paths filed in seen_sizes.
Classified == UNION { Range(seen_sizes[s]) : s \in DOMAIN seen_sizes }

\* The files printed as the i-th group.
Members(i) == Range(groups[i].members)

Grouped(f, g) == \E i \in 1..Len(groups) : {f, g} \subseteq Members(i)

RECURSIVE SumOfGroups(_)
SumOfGroups(i) == IF i = 0 THEN 0 ELSE Len(groups[i].members) + SumOfGroups(i - 1)

\* The slots of the lists of seen_sizes, as <<size, position>>.
Slots == UNION { {s} \X DOMAIN seen_sizes[s] : s \in DOMAIN seen_sizes }

\* The files printed in some group.
Printed == UNION { Members(i) : i \in 1..Len(groups) }

\* C1: in the output of a completed run, two files are printed in the same
\* group if and only if their contents are identical byte for byte; files of
\* equal size and equal adler32 but different contents are never grouped.
C1_ContentIdentity ==
    pc = "done" =>
        \A f, g \in Classified :
            f # g => (Grouped(f, g) <=> files[f].data = files[g].data)

\* C2: no path is printed in two different groups, and every group, like
\* every checksum in dup_checksums, has at least 2 member files.
\* (As many printed lines as printed paths: no path is printed twice, be it
\* in two groups or in one.)
C2_Partition ==
    /\ SumOfGroups(Len(groups)) = Cardinality(Printed)
    /\ \A i \in 1..Len(groups) : Len(groups[i].members) >= 2
    /\ \A c \in dup_checksums : c \in DOMAIN checksums /\ Len(checksums[c]) >= 2

C2_Witness ==
    /\ pc = "done"
    /\ Len(groups) = 2
    /\ getsize(groups[1].members[1]) = getsize(groups[2].members[1])

\* C3: files of different sizes are never grouped: every printed group lies
\* within exactly one size class and its members all have that size, and the
\* checksum dictionary of the size being checked holds files of that size
\* class only.
C3_SizeRespected ==
    /\ \A s \in DOMAIN seen_sizes : \A f \in Range(seen_sizes[s]) : getsize(f) = s
    /\ \A i \in 1..Len(groups) :
        LET s == getsize(groups[i].members[1])
        IN  /\ s \in DOMAIN seen_sizes
            /\ Members(i) \subseteq Range(seen_sizes[s])
            /\ \A f \in Members(i) : getsize(f) = s
    /\ dup_size # -1 =>
        \A c \in DOMAIN checksums : Range(checksums[c]) \subseteq Range(seen_sizes[dup_size])

C3_Witness ==
    /\ pc = "done"
    /\ \E i, j \in 1..Len(groups) :
        \E f \in Members(i), g \in Members(j) : getsize(f) # getsize(g)

\* The size class 0 has been through the checksum and report loops.
ZeroClassReported ==
    /\ 0 \in dup_sizes /\ 0 \notin todo_sizes /\ dup_size # -1
    /\ dup_size = 0 => pc \in { "sizes", "done" }

\* C4: the zero-byte files size-checked so far are all in the size class 0;
\* those checksummed so far are under one checksum; once the size class 0
\* has been reported, hence in every completed run, any two zero-byte files
\* are printed in the same group; and no group ever holds a zero-byte file
\* and a non-empty file.
C4_ZeroByte ==
    /\ LET empties == { f \in Classified : getsize(f) = 0 }
       IN  /\ empties # {} => (0 \in DOMAIN seen_sizes /\ empties = Range(seen_sizes[0]))
           /\ (dup_size = 0 /\ empties \cap read # {}) =>
                \E c \in DOMAIN checksums : empties \cap read = Range(checksums[c])
           /\ (ZeroClassReported \/ (pc = "done" /\ Cardinality(empties) >= 2)) =>
                \E i \in 1..Len(groups) : empties = Members(i)
    /\ \A i \in 1..Len(groups) :
        \A f, g \in Members(i) : (getsize(f) = 0) <=> (getsize(g) = 0)

C4_Witness ==
    /\ pc = "done"
    /\ Len(files) <= MaxFiles
    /\ \E f, g \in Classified :
        f # g /\ getsize(f) = 0 /\ getsize(g) = 0 /\ Grouped(f, g)
    /\ \E h \in Printed : getsize(h) > 0

\* C5: total_dup is the sum of the sizes of the printed groups and never
\* exceeds the number of entries filed in seen_sizes.
C5_TotalBounded ==
    /\ total_dup = SumOfGroups(Len(groups))
    /\ total_dup <= Cardinality(Classified)
    /\ pc = "done" => summary[1].total_dup = total_dup

C5_Witness ==
    /\ pc = "done"
    /\ Len(groups) >= 2
    /\ total_dup = Cardinality(Classified)

\* C6: the file count of the summary line is the number of entries that were
\* size-classified; directories are not counted.
C6_TotalFiles ==
    pc = "done" => summary[1].total_files = Cardinality(Classified)

\* C7: past the size stage with more than WarnThreshold duplicated sizes and
\* warnings on, the prompt has been answered; on the answer 'n' the run is
\* cancelled, and a cancelled run has read no file, printed no group and no
\* summary, and ends with exit status 0.
C7_Cancel ==
    /\ (pc # "size" /\ Cardinality(dup_sizes) > WarnThreshold /\ warn) => answer # "none"
    /\ answer = "n" => pc = "cancelled"
    /\ pc = "cancelled" =>
        /\ answer = "n" /\ warn /\ Cardinality(dup_sizes) > WarnThreshold
        /\ read = {} /\ checksums = EmptyDict
        /\ groups = << >> /\ summary = << >>
        /\ exit_status = 0

C7_Witness == pc = "cancelled" /\ n = Len(files) /\ exit_status = 0

\* C8: when open() fails on a size-classified file in the checksum stage,
\* the run does not fail: it never ends with a failure status because of it.
C8_ReadErrorTolerated ==
    raised = "open" => (pc # "crashed" /\ exit_status # 1)

\* C9 (as stated): no checksum is computed before every entry is
\* size-checked, and no group is printed before the files of every
\* duplicated size have been checksummed.
C9_StagesSequential ==
    /\ read # {} => n = Len(files)
    /\ groups # << >> => \A s \in dup_sizes : Range(seen_sizes[s]) \subseteq read

\* C9 (amended): no checksum is computed before every entry is size-checked;
\* a group is printed only after all files of its own size class have been
\* checksummed; and a step reads at most one file.
C9_StagesPerClass ==
    /\ [](/\ read # {} => (n = Len(files) /\ pc # "size")
          /\ \A i \in 1..Len(groups) :
                \A f \in Members(i) : Range(seen_sizes[getsize(f)]) \subseteq read)
    /\ [][Cardinality(read') <= Cardinality(read) + 1]_vars

C9_Witness ==
    /\ pc = "checksum"
    /\ groups # << >>
    /\ \E s \in todo_sizes \cup {dup_size} : ~(Range(seen_sizes[s]) \subseteq read)

\* C10: throughout, dup_sizes is exactly the set of sizes whose list has 2
\* or more members and every non-directory entry size-checked so far occurs
\* exactly once in the lists of seen_sizes (the lists hold exactly these
\* entries and have as many slots as there are such entries); the
\* checksum stage is entered only for classes of 2 or more members, and a
\* completed run has checksummed every such class.
C10_DupSizes ==
    /\ dup_sizes = { s \in DOMAIN seen_sizes : Len(seen_sizes[s]) >= 2 }
    /\ Classified = { f \in 1..n : files[f].kind # "dir" }
    /\ Cardinality(Slots) = Cardinality(Classified)
    /\ todo_sizes \subseteq dup_sizes
    /\ dup_size # -1 => dup_size \in dup_sizes
    /\ pc = "done" =>
        \A s \in DOMAIN seen_sizes :
            IF Len(seen_sizes[s]) >= 2
            THEN Range(seen_sizes[s]) \subseteq read
            ELSE Range(seen_sizes[s]) \cap read = {}

C10_Witness ==
    /\ pc = "size" /\ n < Len(files)
    /\ dup_sizes # {}
    /\ \E s \in DOMAIN seen_sizes : Len(seen_sizes[s]) = 1

====
